---------------------------- MODULE Spec2Model ----------------------------
(***************************************************************************)
(* Sequential-znode resource and znode data source of the ZooKeeper        *)
(* Terraform provider.                                                     *)
(*                                                                         *)
(* The state is ZooKeeper's tree (zkNodes, zkSeq), the resource-data       *)
(* records Terraform keeps per resource instance (rsc), and the record of  *)
(* the last handler invocation (last): the record it was handed and the    *)
(* record as it left it, the diagnostics or error it returned and the      *)
(* trace of the calls it made, in the order the handler makes them.  One   *)
(* action is one invocation of one handler by the host.                    *)
(*                                                                         *)
(* Strings are TLA+ strings; "" is the zero value the SDK returns for an   *)
(* unset id or an unset string field.                                      *)
(*                                                                         *)
(* ZooKeeper's sequence counter is a signed 32-bit integer on the server;  *)
(* the model keeps it far below 2^31 - 1 (SeqStart, MaxCreates).          *)
(***************************************************************************)
EXTENDS Integers, Sequences, FiniteSets, TLC

VARIABLES zkNodes, zkSeq, rsc, last, derived, pending, clientConforms

vars == <<zkNodes, zkSeq, rsc, last, derived, pending, clientConforms>>

---------------------------------------------------------------------------
(* Bounds of the model *)

\* Sequential creates ZooKeeper performs in one behaviour.
MaxCreates == 2

\* Updates applied to one znode (caps Stat's version).
MaxVersion == 1

\* Resource instances the host manages.  Handlers share nothing but
\* ZooKeeper, and the log of assigned paths (derived) outlives an instance.
Slots == {"r1"}

\* The value ZooKeeper's counters stand at when the provider starts.
SeqStart == 7

\* path_prefix values of the configurations: the scenario of the
\* specification, a prefix ending in one digit, a prefix ending in a run of
\* ten digits.
PathPrefixes == {"/queue/item-", "/a/b1", "/a/n0000000042"}

\* Znodes that exist before the provider runs (not sequential).
PlainNodes == {"/cfg"}

\* Paths the data source is asked to read.
DataSourcePaths == {"/cfg", "/none"}

\* Identifiers given to import that are not the path of a created
\* sequential znode: a plain znode, a path ending in fewer than ten
\* digits, a well-formed path that is not of this behaviour's creates.
ForeignImportIds == {"/cfg", "/a/b7", "/a/b0000000123"}

\* Errors the ZooKeeper client returns.
ClientErrors == {"zk: connection closed"}

ErrNoNode == "zk: node does not exist"

---------------------------------------------------------------------------
(* Strings *)

Digits == {"0", "1", "2", "3", "4", "5", "6", "7", "8", "9"}

CharAt(s, i) == SubSeq(s, i, i)

Digit(d) == CharAt("0123456789", d + 1)

RECURSIVE FmtWidth(_, _)
\* n in decimal, zero-padded on the left to w digits
FmtWidth(n, w) == IF w = 0 THEN "" ELSE FmtWidth(n \div 10, w - 1) \o Digit(n % 10)

\* width of ZooKeeper's sequential suffix, the 10 of `%010d`
SeqSuffixLen == 10

\* fmt.Sprintf("%010d", n), for 0 <= n < 10^10
Fmt010d(n) == FmtWidth(n, SeqSuffixLen)

HasPrefix(s, p) == Len(p) <= Len(s) /\ SubSeq(s, 1, Len(p)) = p

AllDigits(s) == \A i \in 1..Len(s) : CharAt(s, i) \in Digits

\* s ends in (at least) ten decimal digits
EndsInSeqSuffix(s) ==
    /\ Len(s) >= SeqSuffixLen
    /\ AllDigits(SubSeq(s, Len(s) - SeqSuffixLen + 1, Len(s)))

DropSeqSuffix(s) == SubSeq(s, 1, Len(s) - SeqSuffixLen)

Prefixes(s) == {SubSeq(s, 1, n) : n \in 0..Len(s)}

\* the parent znode of a path: everything before its last "/"
Parent(s) ==
    LET slashes == {i \in 1..Len(s) : CharAt(s, i) = "/"}
        lastSlash == CHOOSE i \in slashes : \A j \in slashes : j <= i
    IN  SubSeq(s, 1, lastSlash - 1)

Parents == {Parent(p) : p \in PathPrefixes}

---------------------------------------------------------------------------
(* Content: data / data_base64 *)

\* Base64 (RFC 4648, padded) of the byte strings the model stores.
Base64Table == {<<"", "">>, <<"a", "YQ==">>, <<"zk", "ems=">>}

Contents == {t[1] : t \in Base64Table}

Base64Encode(bytes) == (CHOOSE t \in Base64Table : t[1] = bytes)[2]

\* [err, bytes]: err is "" when s is a Base64 text
Base64Decode(s) ==
    IF \E t \in Base64Table : t[2] = s
    THEN [err |-> "", bytes |-> (CHOOSE t \in Base64Table : t[2] = s)[1]]
    ELSE [err |-> "illegal base64 data at input byte 0", bytes |-> ""]

\* The content part of a configuration: at most one of data, data_base64.
ContentInputs ==
    { [data |-> "a", data_base64 |-> ""],
      [data |-> "", data_base64 |-> "ems="],
      [data |-> "", data_base64 |-> "%%"] }

Configs ==
    { [path_prefix |-> p, data |-> c.data, data_base64 |-> c.data_base64] :
        p \in PathPrefixes, c \in ContentInputs }

NoConfig == [path_prefix |-> "", data |-> "", data_base64 |-> ""]

---------------------------------------------------------------------------
(* Resource data (schema.ResourceData) and diagnostics *)

\* Variant: path_prefix without ForceNew.
ForceNewPathPrefix_Off == FALSE

\* path_prefix is declared ForceNew
ForceNewPathPrefix == TRUE

EmptyData ==
    [id |-> "", isNew |-> FALSE, path_prefix |-> "", data |-> "",
     data_base64 |-> "", path |-> "", stat |-> {}]

\* the record the host hands to Create: the configuration, no id, nothing computed
DataFromConfig(cfg) ==
    [EmptyData EXCEPT !.path_prefix = cfg.path_prefix, !.data = cfg.data,
                      !.data_base64 = cfg.data_base64]

\* the record the host hands to the importer: the id alone
DataFromImportId(id) == [EmptyData EXCEPT !.id = id]

SetId(d, id) == [d EXCEPT !.id = id]

MarkNewResource(d) == [d EXCEPT !.isNew = TRUE]

\* diag.Errorf / diag.FromErr: one diagnostic of severity Error
ErrorDiag(summary) == [severity |-> "Error", summary |-> summary]

HasError(diags) == \E i \in 1..Len(diags) : diags[i].severity = "Error"

\* The fields a write-back may be refused on; "" is no refusal.
WriteFailures == {"", "path", "stat"}

SetError(field) == "set " \o field \o ": value rejected by the schema"

---------------------------------------------------------------------------
(* ZooKeeper and its client *)

NoZNode == [Path |-> "", Data |-> "", Stat |-> {}]

StatOf(node) == {<<"version", node.version>>, <<"dataLength", Len(node.data)>>}

ZNodeAt(path) ==
    [Path |-> path, Data |-> zkNodes[path].data, Stat |-> StatOf(zkNodes[path])]

\* The path ZooKeeper materializes for a sequential create under prefix:
\* the prefix followed by the parent's counter as `%010d`.
SequentialPath(prefix) == prefix \o Fmt010d(zkSeq[Parent(prefix)])

\* What a client that breaks the sequential-create contract may hand back
\* instead of the materialized path.
MisreportedPath(prefix) == "/chroot" \o SequentialPath(prefix)

\* client.CreateSequential(prefix, data): (ZNode, error).  out is "ok" or
\* the error of the call; ret is the path the client reports.
CreateSequential(prefix, data, out, ret) ==
    IF out # "ok"
    THEN [err |-> out, znode |-> NoZNode]
    ELSE [err |-> "",
          znode |-> [Path |-> ret, Data |-> data,
                     Stat |-> StatOf([data |-> data, version |-> 0])]]

\* client.Read(path): (ZNode, error)
Read(path, out) ==
    IF out # "ok" THEN [err |-> out, znode |-> NoZNode]
    ELSE IF path \notin DOMAIN zkNodes THEN [err |-> ErrNoNode, znode |-> NoZNode]
    ELSE [err |-> "", znode |-> ZNodeAt(path)]

\* client.Update(path, data): (ZNode, error)
Update(path, data, out) ==
    IF out # "ok" THEN [err |-> out, znode |-> NoZNode]
    ELSE IF path \notin DOMAIN zkNodes THEN [err |-> ErrNoNode, znode |-> NoZNode]
    ELSE [err |-> "",
          znode |-> [Path |-> path, Data |-> data,
                     Stat |-> StatOf([data |-> data,
                                      version |-> zkNodes[path].version + 1])]]

\* client.Delete(path): error
Delete(path, out) ==
    IF out # "ok" THEN out
    ELSE IF path \notin DOMAIN zkNodes THEN ErrNoNode
    ELSE ""

\* client.RemoveSequentialSuffix(path): the results it may give.  A path
\* ending in ten digits loses them; for any other path the result is not
\* specified, and may be any prefix of the path (the path itself included).
RemoveSequentialSuffix(path) ==
    IF EndsInSeqSuffix(path) THEN {DropSeqSuffix(path)} ELSE Prefixes(path)

---------------------------------------------------------------------------
(* Handlers.  Each yields the record as the handler leaves it (d), what it *)
(* returns (diags; err and nret for the importer), the calls it makes in   *)
(* order (trace), its calls to the ZooKeeper client (calls) and the fields *)
(* whose rscData.Set returned an error (failed).                           *)

\* a call to the client: its arguments, its error ("" for none) and, for a
\* create, the path of the znode it returned
Call(op, path, data, err, ret) ==
    [op |-> op, path |-> path, data |-> data, err |-> err, ret |-> ret]

Returned(d, diags, trace, calls, failed) ==
    [d |-> d, diags |-> diags, err |-> "", nret |-> 0, trace |-> trace, calls |-> calls,
     failed |-> failed]

\* getDataBytesFromResourceData(rscData): ([]byte, error)
getDataBytesFromResourceData(d) ==
    IF d.data_base64 # "" THEN Base64Decode(d.data_base64)
    ELSE [err |-> "", bytes |-> d.data]

\* getFieldDataFromResourceData(rscData): []byte  (package zookeeper)
getFieldDataFromResourceData(d) == d.data

AttributeValue(znode, field) ==
    CASE field = "path" -> znode.Path
      [] field = "data" -> znode.Data
      [] field = "data_base64" -> Base64Encode(znode.Data)
      [] field = "stat" -> znode.Stat

\* rscData.Set of fields, in order, from znode; the write of field wf is
\* refused, which ends the write-back with one more diagnostic.
WriteBack(d, znode, diags, fields, wf) ==
    LET n == Len(fields)
        bad == {i \in 1..n : fields[i] = wf}
        k == IF bad = {} THEN n ELSE (CHOOSE i \in bad : TRUE) - 1
        tried == IF bad = {} THEN n ELSE k + 1
    IN  [d |-> [f \in DOMAIN d |->
                  IF \E i \in 1..k : fields[i] = f
                  THEN AttributeValue(znode, f) ELSE d[f]],
         diags |-> IF bad = {} THEN diags ELSE Append(diags, ErrorDiag(SetError(wf))),
         trace |-> [i \in 1..tried |-> "Set:" \o fields[i]],
         failed |-> IF bad = {} THEN <<>> ELSE <<wf>>]

\* setAttributesFromZNode(rscData, znode, diags)  (package provider)
setAttributesFromZNode(d, znode, diags, wf) ==
    WriteBack(d, znode, diags, <<"path", "data", "data_base64", "stat">>, wf)

\* setResourceDataFromZNode(rscData, &znode, diags)  (package zookeeper)
setResourceDataFromZNode(d, znode, diags, wf) ==
    WriteBack(d, znode, diags, <<"path", "data", "stat">>, wf)

CreateFailedSummary(prefix, err) ==
    "Failed to create Sequential ZNode '" \o prefix \o "': " \o err

\* Variant: the error of CreateSequential is reported, and the handler goes
\* on as if the call had succeeded.
resourceSeqZNodeCreate_NoReturnOnError(d, out, ret, wf) ==
    LET dataBytes == getDataBytesFromResourceData(d)
        t1 == <<"Get:path_prefix", "getDataBytesFromResourceData">>
    IN  IF dataBytes.err # ""
        THEN Returned(d, <<ErrorDiag(dataBytes.err)>>, t1, <<>>, <<>>)
        ELSE
          LET res == CreateSequential(d.path_prefix, dataBytes.bytes, out, ret)
              calls == <<Call("CreateSequential", d.path_prefix, dataBytes.bytes, res.err,
                              res.znode.Path)>>
              diags == IF res.err # ""
                       THEN <<ErrorDiag(CreateFailedSummary(d.path_prefix, res.err))>>
                       ELSE <<>>
              w == setAttributesFromZNode(MarkNewResource(SetId(d, res.znode.Path)),
                                          res.znode, diags, wf)
          IN  Returned(w.d, w.diags,
                       t1 \o <<"CreateSequential", "SetId", "MarkNewResource">> \o w.trace,
                       calls, w.failed)

\* Variant: the provider predicts the suffix instead of taking the path
\* the client returned.
resourceSeqZNodeCreate_PredictedSuffix(d, out, ret, wf) ==
    LET dataBytes == getDataBytesFromResourceData(d)
        t1 == <<"Get:path_prefix", "getDataBytesFromResourceData">>
    IN  IF dataBytes.err # ""
        THEN Returned(d, <<ErrorDiag(dataBytes.err)>>, t1, <<>>, <<>>)
        ELSE
          LET res == CreateSequential(d.path_prefix, dataBytes.bytes, out, ret)
              t2 == Append(t1, "CreateSequential")
              calls == <<Call("CreateSequential", d.path_prefix, dataBytes.bytes, res.err,
                              res.znode.Path)>>
          IN  IF res.err # ""
              THEN Returned(d, <<ErrorDiag(CreateFailedSummary(d.path_prefix, res.err))>>,
                            t2, calls, <<>>)
              ELSE
                LET d1 == MarkNewResource(SetId(d, d.path_prefix \o Fmt010d(0)))
                    w == setAttributesFromZNode(d1, res.znode, <<>>, wf)
                IN  Returned(w.d, w.diags,
                             t2 \o <<"SetId", "MarkNewResource">> \o w.trace, calls,
                             w.failed)

\* Variant: the computed fields are written first, and the id is set only
\* when the write-back raised no error.
resourceSeqZNodeCreate_IdAfterWriteBack(d, out, ret, wf) ==
    LET dataBytes == getDataBytesFromResourceData(d)
        t1 == <<"Get:path_prefix", "getDataBytesFromResourceData">>
    IN  IF dataBytes.err # ""
        THEN Returned(d, <<ErrorDiag(dataBytes.err)>>, t1, <<>>, <<>>)
        ELSE
          LET res == CreateSequential(d.path_prefix, dataBytes.bytes, out, ret)
              t2 == Append(t1, "CreateSequential")
              calls == <<Call("CreateSequential", d.path_prefix, dataBytes.bytes, res.err,
                              res.znode.Path)>>
          IN  IF res.err # ""
              THEN Returned(d, <<ErrorDiag(CreateFailedSummary(d.path_prefix, res.err))>>,
                            t2, calls, <<>>)
              ELSE
                LET w == setAttributesFromZNode(d, res.znode, <<>>, wf)
                IN  IF HasError(w.diags)
                    THEN Returned(w.d, w.diags, t2 \o w.trace, calls, w.failed)
                    ELSE Returned(MarkNewResource(SetId(w.d, res.znode.Path)), w.diags,
                                  t2 \o w.trace \o <<"SetId", "MarkNewResource">>, calls,
                                  w.failed)

\* Variant: a path obtained for the same prefix by an earlier invocation
\* is used again, without a call.
resourceSeqZNodeCreate_Cached(d, out, ret, wf) ==
    LET dataBytes == getDataBytesFromResourceData(d)
        t1 == <<"Get:path_prefix", "getDataBytesFromResourceData">>
        earlier == {i \in 1..Len(derived) : derived[i].prefix = d.path_prefix}
    IN  IF dataBytes.err # ""
        THEN Returned(d, <<ErrorDiag(dataBytes.err)>>, t1, <<>>, <<>>)
        ELSE IF earlier # {}
        THEN Returned(MarkNewResource(SetId(d, derived[CHOOSE i \in earlier : TRUE].id)),
                      <<>>, t1 \o <<"SetId", "MarkNewResource">>, <<>>, <<>>)
        ELSE
          LET res == CreateSequential(d.path_prefix, dataBytes.bytes, out, ret)
              t2 == Append(t1, "CreateSequential")
              calls == <<Call("CreateSequential", d.path_prefix, dataBytes.bytes, res.err,
                              res.znode.Path)>>
          IN  IF res.err # ""
              THEN Returned(d, <<ErrorDiag(CreateFailedSummary(d.path_prefix, res.err))>>,
                            t2, calls, <<>>)
              ELSE
                LET d1 == MarkNewResource(SetId(d, res.znode.Path))
                    w == setAttributesFromZNode(d1, res.znode, <<>>, wf)
                IN  Returned(w.d, w.diags,
                             t2 \o <<"SetId", "MarkNewResource">> \o w.trace, calls,
                             w.failed)

\* Variant: the znode is created with the raw data_base64 text, which is
\* decoded only afterwards.
resourceSeqZNodeCreate_CreateBeforeDecode(d, out, ret, wf) ==
    LET raw == IF d.data_base64 # "" THEN d.data_base64 ELSE d.data
        res == CreateSequential(d.path_prefix, raw, out, ret)
        t1 == <<"Get:path_prefix", "CreateSequential">>
        calls == <<Call("CreateSequential", d.path_prefix, raw, res.err, res.znode.Path)>>
        dataBytes == getDataBytesFromResourceData(d)
        t2 == Append(t1, "getDataBytesFromResourceData")
    IN  IF res.err # ""
        THEN Returned(d, <<ErrorDiag(CreateFailedSummary(d.path_prefix, res.err))>>,
                      t1, calls, <<>>)
        ELSE IF dataBytes.err # ""
        THEN Returned(d, <<ErrorDiag(dataBytes.err)>>, t2, calls, <<>>)
        ELSE
          LET d1 == MarkNewResource(SetId(d, res.znode.Path))
              w == setAttributesFromZNode(d1, res.znode, <<>>, wf)
          IN  Returned(w.d, w.diags, t2 \o <<"SetId", "MarkNewResource">> \o w.trace,
                       calls, w.failed)

\* resourceSeqZNodeCreate  (package provider)
resourceSeqZNodeCreate(d, out, ret, wf) ==
    LET znodePathPrefix == d.path_prefix
        dataBytes == getDataBytesFromResourceData(d)
        t1 == <<"Get:path_prefix", "getDataBytesFromResourceData">>
    IN  IF dataBytes.err # ""
        THEN Returned(d, <<ErrorDiag(dataBytes.err)>>, t1, <<>>, <<>>)
        ELSE
          LET res == CreateSequential(znodePathPrefix, dataBytes.bytes, out, ret)
              t2 == Append(t1, "CreateSequential")
              calls == <<Call("CreateSequential", znodePathPrefix, dataBytes.bytes, res.err, res.znode.Path)>>
          IN  IF res.err # ""
              THEN Returned(d, <<ErrorDiag(CreateFailedSummary(znodePathPrefix, res.err))>>,
                            t2, calls, <<>>)
              ELSE
                LET d1 == MarkNewResource(SetId(d, res.znode.Path))
                    w == setAttributesFromZNode(d1, res.znode, <<>>, wf)
                IN  Returned(w.d, w.diags,
                             t2 \o <<"SetId", "MarkNewResource">> \o w.trace, calls,
                             w.failed)

\* Variant: the id is taken from the prefix asked for, not from the path
\* returned.
zookeeper_resourceSeqZNodeCreate_IdFromPrefix(d, out, ret, wf) ==
    LET data == getFieldDataFromResourceData(d)
        res == CreateSequential(d.path_prefix, data, out, ret)
        t1 == <<"Get:path_prefix", "getFieldDataFromResourceData", "CreateSequential">>
        calls == <<Call("CreateSequential", d.path_prefix, data, res.err, res.znode.Path)>>
    IN  IF res.err # ""
        THEN Returned(d, <<ErrorDiag(CreateFailedSummary(d.path_prefix, res.err))>>,
                      t1, calls, <<>>)
        ELSE
          LET d1 == MarkNewResource(SetId(d, d.path_prefix))
              w == setResourceDataFromZNode(d1, res.znode, <<>>, wf)
          IN  Returned(w.d, w.diags, t1 \o <<"SetId", "MarkNewResource">> \o w.trace, calls,
                       w.failed)

\* resourceSeqZNodeCreate  (package zookeeper)
zookeeper_resourceSeqZNodeCreate(d, out, ret, wf) ==
    LET diags == <<>>
        znodePathPrefix == d.path_prefix
        data == getFieldDataFromResourceData(d)
        res == CreateSequential(znodePathPrefix, data, out, ret)
        t1 == <<"Get:path_prefix", "getFieldDataFromResourceData", "CreateSequential">>
        calls == <<Call("CreateSequential", znodePathPrefix, data, res.err, res.znode.Path)>>
    IN  IF res.err # ""
        THEN Returned(d, Append(diags, ErrorDiag(CreateFailedSummary(znodePathPrefix, res.err))),
                      t1, calls, <<>>)
        ELSE
          LET d1 == MarkNewResource(SetId(d, res.znode.Path))
              w == setResourceDataFromZNode(d1, res.znode, diags, wf)
          IN  Returned(w.d, w.diags, t1 \o <<"SetId", "MarkNewResource">> \o w.trace, calls,
                       w.failed)

\* Variant: path_prefix is set to the id as it is, suffix included.
resourceSeqZNodeImport_KeepsSuffix(d, recovered, setFails) ==
    LET t == <<"Id", "Set:path_prefix">>
    IN  IF setFails
        THEN [d |-> d, diags |-> <<>>, err |-> SetError("path_prefix"), nret |-> 0,
              trace |-> t, calls |-> <<>>, failed |-> <<"path_prefix">>]
        ELSE [d |-> [d EXCEPT !.path_prefix = d.id], diags |-> <<>>, err |-> "",
              nret |-> 1, trace |-> t, calls |-> <<>>, failed |-> <<>>]

\* Variant: an id that does not end in the sequential suffix is rejected.
resourceSeqZNodeImport_Validating(d, recovered, setFails) ==
    LET t == <<"Id", "RemoveSequentialSuffix", "Set:path_prefix">>
    IN  IF ~EndsInSeqSuffix(d.id)
        THEN [d |-> d, diags |-> <<>>, err |-> "not the path of a sequential znode",
              nret |-> 0, trace |-> <<"Id">>, calls |-> <<>>, failed |-> <<>>]
        ELSE IF setFails
        THEN [d |-> d, diags |-> <<>>, err |-> SetError("path_prefix"), nret |-> 0,
              trace |-> t, calls |-> <<>>, failed |-> <<"path_prefix">>]
        ELSE [d |-> [d EXCEPT !.path_prefix = recovered], diags |-> <<>>, err |-> "",
              nret |-> 1, trace |-> t, calls |-> <<>>, failed |-> <<>>]

\* resourceSeqZNodeImport: recovered is the result of
\* client.RemoveSequentialSuffix(rscData.Id()); setFails, that
\* rscData.Set("path_prefix", ...) returns an error.
resourceSeqZNodeImport(d, recovered, setFails) ==
    LET t == <<"Id", "RemoveSequentialSuffix", "Set:path_prefix">>
    IN  IF setFails
        THEN [d |-> d, diags |-> <<>>, err |-> SetError("path_prefix"), nret |-> 0,
              trace |-> t, calls |-> <<>>, failed |-> <<"path_prefix">>]
        ELSE [d |-> [d EXCEPT !.path_prefix = recovered], diags |-> <<>>, err |-> "",
              nret |-> 1, trace |-> t, calls |-> <<>>, failed |-> <<>>]

ReadFailedSummary(path, err) == "Unable read ZNode from '" \o path \o "': " \o err

\* Variant: the id is set after the attributes, and only when their
\* write-back raised no error.
dataSourceZNodeRead_IdAfterWriteBack(d, out, wf) ==
    LET res == Read(d.path, out)
        t1 == <<"Get:path", "Read">>
        calls == <<Call("Read", d.path, "", res.err, res.znode.Path)>>
    IN  IF res.err # ""
        THEN Returned(d, <<ErrorDiag(ReadFailedSummary(d.path, res.err))>>, t1, calls,
                      <<>>)
        ELSE
          LET w == setAttributesFromZNode(d, res.znode, <<>>, wf)
          IN  IF HasError(w.diags)
              THEN Returned(w.d, w.diags, t1 \o w.trace, calls, w.failed)
              ELSE Returned(SetId(w.d, res.znode.Path), w.diags,
                            (t1 \o w.trace) \o <<"SetId">>, calls, w.failed)

\* dataSourceZNodeRead
dataSourceZNodeRead(d, out, wf) ==
    LET znodePath == d.path
        res == Read(znodePath, out)
        t1 == <<"Get:path", "Read">>
        calls == <<Call("Read", znodePath, "", res.err, res.znode.Path)>>
    IN  IF res.err # ""
        THEN Returned(d, <<ErrorDiag(ReadFailedSummary(znodePath, res.err))>>, t1, calls,
                      <<>>)
        ELSE
          LET d1 == SetId(d, res.znode.Path)
              w == setAttributesFromZNode(d1, res.znode, <<>>, wf)
          IN  Returned(w.d, w.diags, Append(t1, "SetId") \o w.trace, calls, w.failed)

\* resourceZNodeRead, as the sequential resource's Read
resourceSeqZNodeRead(d, out, wf) ==
    LET res == Read(d.id, out)
        t1 == <<"Id", "Read">>
        calls == <<Call("Read", d.id, "", res.err, res.znode.Path)>>
    IN  IF res.err # ""
        THEN Returned(d, <<ErrorDiag("Failed to read ZNode '" \o d.id \o "': " \o res.err)>>,
                      t1, calls, <<>>)
        ELSE
          LET w == setAttributesFromZNode(d, res.znode, <<>>, wf)
          IN  Returned(w.d, w.diags, t1 \o w.trace, calls, w.failed)

\* resourceZNodeUpdate, as the sequential resource's Update
resourceSeqZNodeUpdate(d, out, wf) ==
    LET dataBytes == getDataBytesFromResourceData(d)
        t1 == <<"Id", "getDataBytesFromResourceData">>
    IN  IF dataBytes.err # ""
        THEN Returned(d, <<ErrorDiag(dataBytes.err)>>, t1, <<>>, <<>>)
        ELSE
          LET res == Update(d.id, dataBytes.bytes, out)
              t2 == Append(t1, "Update")
              calls == <<Call("Update", d.id, dataBytes.bytes, res.err, res.znode.Path)>>
          IN  IF res.err # ""
              THEN Returned(d, <<ErrorDiag("Failed to update ZNode '" \o d.id \o "': "
                                           \o res.err)>>, t2, calls, <<>>)
              ELSE
                LET w == setAttributesFromZNode(d, res.znode, <<>>, wf)
                IN  Returned(w.d, w.diags, t2 \o w.trace, calls, w.failed)

\* resourceZNodeDelete, as the sequential resource's Delete
resourceSeqZNodeDelete(d, out) ==
    LET err == Delete(d.id, out)
        t1 == <<"Id", "Delete">>
        calls == <<Call("Delete", d.id, "", err, "")>>
    IN  IF err # ""
        THEN Returned(d, <<ErrorDiag("Failed to delete ZNode '" \o d.id \o "': " \o err)>>,
                      t1, calls, <<>>)
        ELSE Returned(SetId(d, ""), <<>>, Append(t1, "SetId"), calls, <<>>)

---------------------------------------------------------------------------
(* What ZooKeeper does on the client's calls *)

SequentialPathIn(seq, prefix) == prefix \o Fmt010d(seq[Parent(prefix)])

NodesAfterCall(nodes, seq, c) ==
    IF c.err # "" THEN nodes
    ELSE CASE c.op = "CreateSequential" ->
                (SequentialPathIn(seq, c.path) :> [data |-> c.data, version |-> 0]) @@ nodes
           [] c.op = "Update" ->
                [nodes EXCEPT ![c.path] = [data |-> c.data, version |-> @.version + 1]]
           [] c.op = "Delete" -> [q \in DOMAIN nodes \ {c.path} |-> nodes[q]]
           [] OTHER -> nodes

SeqAfterCall(seq, c) ==
    IF c.err = "" /\ c.op = "CreateSequential"
    THEN [seq EXCEPT ![Parent(c.path)] = @ + 1]
    ELSE seq

\* the paths ZooKeeper materializes for the sequential creates among calls
RECURSIVE AssignedPaths(_, _)
AssignedPaths(seq, calls) ==
    IF calls = <<>> THEN <<>>
    ELSE (IF Head(calls).err = "" /\ Head(calls).op = "CreateSequential"
          THEN <<SequentialPathIn(seq, Head(calls).path)>> ELSE <<>>)
         \o AssignedPaths(SeqAfterCall(seq, Head(calls)), Tail(calls))

RECURSIVE ZkAfter(_, _, _)
\* ZooKeeper's tree and counters after calls
ZkAfter(nodes, seq, calls) ==
    IF calls = <<>> THEN [nodes |-> nodes, seq |-> seq]
    ELSE ZkAfter(NodesAfterCall(nodes, seq, Head(calls)),
                 SeqAfterCall(seq, Head(calls)),
                 Tail(calls))

Outcomes == {"ok"} \cup ClientErrors

\* The paths the client may report for a sequential create under prefix.
ReportedPaths(prefix) ==
    IF clientConforms THEN {SequentialPath(prefix)}
    ELSE {SequentialPath(prefix), MisreportedPath(prefix)}

---------------------------------------------------------------------------
(* The host: one action per handler invocation *)

\* What the host keeps of a record once the handler returned.
Persist(d) == IF d.id = "" THEN EmptyData ELSE [d EXCEPT !.isNew = FALSE]

NoInvocation ==
    [op |-> "none", pkg |-> "", plan |-> "none", slot |-> "", in |-> EmptyData,
     prior |-> EmptyData, out |-> EmptyData, diags |-> <<>>, err |-> "", nret |-> 0,
     trace |-> <<>>, calls |-> <<>>, failed |-> <<>>]

\* the record of an invocation: the handler (op, of package pkg), the plan
\* it serves, the record handed in, the state's record before it (of a
\* replacement's Create: the id replaced), and what the handler did
Invocation(op, pkg, plan, slot, in, prior, h) ==
    [op |-> op, pkg |-> pkg, plan |-> plan, slot |-> slot, in |-> in, prior |-> prior,
     out |-> h.d, diags |-> h.diags, err |-> h.err, nret |-> h.nret, trace |-> h.trace,
     calls |-> h.calls, failed |-> h.failed]

\* The handler's client calls reach ZooKeeper.
ZkStep(h) ==
    LET z == ZkAfter(zkNodes, zkSeq, h.calls)
    IN  /\ zkNodes' = z.nodes
        /\ zkSeq' = z.seq

\* The log of successful Creates: the prefix asked for, the id the handler
\* set, the paths ZooKeeper materialized on its calls.
LogCreate(in, h) ==
    derived' = IF h.d.id = "" THEN derived
               ELSE Append(derived, [prefix |-> in.path_prefix, id |-> h.d.id,
                                     paths |-> AssignedPaths(zkSeq, h.calls)])

NoPending == [cfg |-> NoConfig, replaces |-> ""]

PlanOfCreate(r) == IF pending[r] = NoPending THEN "create" ELSE "replace"

ConfigsFor(r) == IF pending[r] = NoPending THEN Configs ELSE {pending[r].cfg}

PriorOfCreate(r) == [EmptyData EXCEPT !.id = pending[r].replaces]

\* Create of a resource the state does not hold (a new resource, or the
\* second half of a replacement).
HostCreate(r) ==
    /\ rsc[r].id = ""
    /\ Len(derived) < MaxCreates
    /\ \E cfg \in ConfigsFor(r), out \in Outcomes, wf \in WriteFailures :
         \E ret \in ReportedPaths(cfg.path_prefix) :
           LET in == DataFromConfig(cfg)
               h == resourceSeqZNodeCreate(in, out, ret, wf)
           IN  /\ ZkStep(h)
               /\ LogCreate(in, h)
               /\ rsc' = [rsc EXCEPT ![r] = Persist(h.d)]
               /\ last' = Invocation("Create", "provider", PlanOfCreate(r), r, in,
                                     PriorOfCreate(r), h)
    /\ pending' = [pending EXCEPT ![r] = NoPending]
    /\ UNCHANGED clientConforms

\* The same, by the handler of package zookeeper (its schema has no data_base64).
HostCreateZookeeper(r) ==
    /\ rsc[r].id = ""
    /\ Len(derived) < MaxCreates
    /\ \E cfg \in {c \in ConfigsFor(r) : c.data_base64 = ""},
          out \in Outcomes, wf \in WriteFailures :
         \E ret \in ReportedPaths(cfg.path_prefix) :
           LET in == DataFromConfig(cfg)
               h == zookeeper_resourceSeqZNodeCreate(in, out, ret, wf)
           IN  /\ ZkStep(h)
               /\ LogCreate(in, h)
               /\ rsc' = [rsc EXCEPT ![r] = Persist(h.d)]
               /\ last' = Invocation("Create", "zookeeper", PlanOfCreate(r), r, in,
                                     PriorOfCreate(r), h)
    /\ pending' = [pending EXCEPT ![r] = NoPending]
    /\ UNCHANGED clientConforms

ImportIds == {derived[i].id : i \in 1..Len(derived)} \cup ForeignImportIds

\* terraform import: the importer runs on a record holding the id alone.
HostImport(r) ==
    /\ rsc[r].id = ""
    /\ pending[r] = NoPending
    /\ \E id \in ImportIds, setFails \in BOOLEAN :
         \E recovered \in RemoveSequentialSuffix(id) :
           LET in == DataFromImportId(id)
               h == resourceSeqZNodeImport(in, recovered, setFails)
           IN  /\ ZkStep(h)
               /\ rsc' = [rsc EXCEPT ![r] = IF h.err = "" THEN Persist(h.d) ELSE EmptyData]
               /\ last' = Invocation("Import", "provider", "import", r, in, rsc[r], h)
    /\ UNCHANGED <<derived, pending, clientConforms>>

\* refresh
HostRead(r) ==
    /\ rsc[r].id # ""
    /\ \E out \in Outcomes, wf \in WriteFailures :
         LET in == rsc[r]
             h == resourceSeqZNodeRead(in, out, wf)
         IN  /\ ZkStep(h)
             /\ rsc' = [rsc EXCEPT ![r] = IF HasError(h.diags) THEN @ ELSE Persist(h.d)]
             /\ last' = Invocation("Read", "provider", "read", r, in, rsc[r], h)
    /\ UNCHANGED <<derived, pending, clientConforms>>

\* The host's plan for a configuration against the state: a change of a
\* ForceNew field is a replacement, any other change an update in place.
RequiresReplace(d, cfg) == ForceNewPathPrefix /\ cfg.path_prefix # d.path_prefix

UpdatedData(d, cfg) ==
    [d EXCEPT !.path_prefix = cfg.path_prefix, !.data = cfg.data,
              !.data_base64 = cfg.data_base64]

\* apply of a changed configuration that the plan updates in place
HostUpdate(r) ==
    /\ rsc[r].id # ""
    /\ rsc[r].id \in DOMAIN zkNodes => zkNodes[rsc[r].id].version < MaxVersion
    /\ \E cfg \in Configs, out \in Outcomes, wf \in WriteFailures :
         /\ ~RequiresReplace(rsc[r], cfg)
         /\ LET in == UpdatedData(rsc[r], cfg)
                h == resourceSeqZNodeUpdate(in, out, wf)
            IN  /\ ZkStep(h)
                /\ rsc' = [rsc EXCEPT ![r] = IF HasError(h.diags) THEN @ ELSE Persist(h.d)]
                /\ last' = Invocation("Update", "provider", "update", r, in, rsc[r], h)
    /\ UNCHANGED <<derived, pending, clientConforms>>

\* apply of a changed configuration that the plan replaces: Delete now,
\* Create of the new configuration next.
HostReplace(r) ==
    /\ rsc[r].id # ""
    /\ \E cfg \in Configs, out \in Outcomes :
         /\ RequiresReplace(rsc[r], cfg)
         /\ LET in == rsc[r]
                h == resourceSeqZNodeDelete(in, out)
            IN  /\ ZkStep(h)
                /\ rsc' = [rsc EXCEPT ![r] = IF HasError(h.diags) THEN @ ELSE EmptyData]
                /\ pending' = [pending EXCEPT ![r] =
                                 IF HasError(h.diags) THEN NoPending
                                 ELSE [cfg |-> cfg, replaces |-> in.id]]
                /\ last' = Invocation("Delete", "provider", "replace", r, in, rsc[r], h)
    /\ UNCHANGED <<derived, clientConforms>>

\* destroy
HostDestroy(r) ==
    /\ rsc[r].id # ""
    /\ \E out \in Outcomes :
         LET in == rsc[r]
             h == resourceSeqZNodeDelete(in, out)
         IN  /\ ZkStep(h)
             /\ rsc' = [rsc EXCEPT ![r] = IF HasError(h.diags) THEN @ ELSE EmptyData]
             /\ last' = Invocation("Delete", "provider", "destroy", r, in, rsc[r], h)
    /\ UNCHANGED <<derived, pending, clientConforms>>

\* read of the znode data source
HostDataSourceRead ==
    /\ \E path \in DataSourcePaths, out \in Outcomes, wf \in WriteFailures :
         LET in == [EmptyData EXCEPT !.path = path]
             h == dataSourceZNodeRead(in, out, wf)
         IN  /\ ZkStep(h)
             /\ last' = Invocation("DataSourceRead", "provider", "read", "", in, in, h)
    /\ UNCHANGED <<rsc, derived, pending, clientConforms>>

---------------------------------------------------------------------------
(* Specifications *)

InitWith(conforming) ==
    /\ zkNodes = [q \in PlainNodes |-> [data |-> "zk", version |-> 0]]
    /\ zkSeq = [q \in Parents |-> SeqStart]
    /\ rsc = [r \in Slots |-> EmptyData]
    /\ last = NoInvocation
    /\ derived = <<>>
    /\ pending = [r \in Slots |-> NoPending]
    /\ clientConforms \in conforming

\* the client honours the sequential-create contract
Init == InitWith({TRUE})

\* the client need not honour it: it may report the materialized path or
\* another
InitAnyClient == InitWith({FALSE})

Next ==
    \/ \E r \in Slots : HostCreate(r)
    \/ \E r \in Slots : HostCreateZookeeper(r)
    \/ \E r \in Slots : HostImport(r)
    \/ \E r \in Slots : HostRead(r)
    \/ \E r \in Slots : HostUpdate(r)
    \/ \E r \in Slots : HostReplace(r)
    \/ \E r \in Slots : HostDestroy(r)
    \/ HostDataSourceRead

Spec == Init /\ [][Next]_vars

SpecAnyClient == InitAnyClient /\ [][Next]_vars

---------------------------------------------------------------------------
(* Properties *)

Positions(trace, e) == {i \in 1..Len(trace) : trace[i] = e}

IsWrite(e) == HasPrefix(e, "Set:")

Writes(trace) == {i \in 1..Len(trace) : IsWrite(trace[i])}

ClientCalls(trace) ==
    {i \in 1..Len(trace) : trace[i] \in {"CreateSequential", "Read", "Update", "Delete"}}

CreateReturned == last.op = "Create"

\* the invocation's call to CreateSequential came back without an error
CreateSequentialSucceeded ==
    /\ last.calls # <<>>
    /\ last.calls[1].op = "CreateSequential"
    /\ last.calls[1].err = ""

CreateSequentialFailed ==
    /\ last.calls # <<>>
    /\ last.calls[1].op = "CreateSequential"
    /\ last.calls[1].err # ""

LastTen(s) == SubSeq(s, Len(s) - SeqSuffixLen + 1, Len(s))

DerivedIds == {derived[i].id : i \in 1..Len(derived)}

\* C1: round trip.  After a successful import of a path that a Create with
\* prefix p was assigned, p not ending in ten digits, the imported record's
\* path_prefix (and the state's) is p; and the import of "/a/b0000000123"
\* recovers "/a/b".
C1_RoundTrip ==
    (last.op = "Import" /\ last.err = "") =>
        /\ \A i \in 1..Len(derived) :
             (derived[i].id = last.in.id /\ ~EndsInSeqSuffix(derived[i].prefix)) =>
                 /\ last.out.path_prefix = derived[i].prefix
                 /\ rsc[last.slot].path_prefix = derived[i].prefix
        /\ last.in.id = "/a/b0000000123" => last.out.path_prefix = "/a/b"

\* the scenario of the specification: "/queue/item-" was created as
\* "/queue/item-0000000007", which was then imported
C1_Witness ==
    /\ last.op = "Import" /\ last.err = ""
    /\ last.in.id = "/queue/item-0000000007"
    /\ \E i \in 1..Len(derived) :
         derived[i].id = last.in.id /\ derived[i].prefix = "/queue/item-"
    /\ rsc[last.slot].path_prefix = "/queue/item-"

\* C2: when CreateSequential returns an error, Create returns exactly one
\* error diagnostic, which carries the prefix and the cause; the record is
\* left as it was handed in, without id, not marked new, nothing computed
\* written; SetId, MarkNewResource and the write-back are not reached; the
\* state holds no resource.
C2_CreateFailurePropagation ==
    (CreateReturned /\ CreateSequentialFailed) =>
        /\ last.diags =
             <<ErrorDiag(CreateFailedSummary(last.in.path_prefix, last.calls[1].err))>>
        /\ last.out = last.in
        /\ last.out.id = "" /\ ~last.out.isNew
        /\ last.out.path = "" /\ last.out.stat = {}
        /\ Positions(last.trace, "SetId") = {}
        /\ Positions(last.trace, "MarkNewResource") = {}
        /\ Writes(last.trace) = {}
        /\ rsc[last.slot] = EmptyData

C2_Witness ==
    /\ CreateReturned /\ CreateSequentialFailed
    /\ last.in.path_prefix = "/queue/item-"
    /\ Len(last.diags) = 1

\* C3 as stated: after a successful Create the id is the returned path and
\* starts with path_prefix, whatever path the client returned.
C3_IdStartsWithPrefix ==
    (CreateReturned /\ CreateSequentialSucceeded) =>
        /\ last.out.id = last.calls[1].ret
        /\ HasPrefix(last.out.id, last.in.path_prefix)

\* C3, amended: after a successful Create the id is the returned path,
\* unchanged and unchecked: a returned path that does not start with
\* path_prefix is recorded all the same, without a diagnostic of its own
\* (the only errors are those of the write-back), and the id starts with
\* path_prefix when the returned path is the one ZooKeeper materialized.
C3_IdIsReturnedPath ==
    (CreateReturned /\ CreateSequentialSucceeded) =>
        /\ last.out.id = last.calls[1].ret
        /\ rsc[last.slot].id = last.calls[1].ret
        /\ HasError(last.diags) <=> last.failed # <<>>
        /\ derived[Len(derived)].paths = <<last.calls[1].ret>> =>
             HasPrefix(last.out.id, last.in.path_prefix)

\* the client reported a path outside the prefix, and it became the id
C3_Witness ==
    /\ CreateReturned /\ CreateSequentialSucceeded
    /\ ~HasPrefix(last.calls[1].ret, last.in.path_prefix)
    /\ rsc[last.slot].id = last.calls[1].ret
    /\ last.diags = <<>>

\* C4 as stated: whenever a resource's id and path_prefix are both set, the
\* id is path_prefix followed by exactly ten decimal digits, assigned by
\* ZooKeeper (on a sequential create).
C4_IdentityInvariant ==
    \A r \in Slots :
        (rsc[r].id # "" /\ rsc[r].path_prefix # "") =>
            /\ Len(rsc[r].id) >= SeqSuffixLen
            /\ AllDigits(LastTen(rsc[r].id))
            /\ rsc[r].id = rsc[r].path_prefix \o LastTen(rsc[r].id)
            /\ rsc[r].id \in DerivedIds

\* C4, amended: whenever a resource's id and path_prefix are both set and
\* the id ends in ten decimal digits, the id is path_prefix followed by
\* those ten digits; an id that Create assigned ends in ten digits and is a
\* path ZooKeeper materialized on that Create's call; and every id is one
\* Create assigned or one handed to import.
C4_IdentityOfWellFormedIds ==
    /\ \A r \in Slots :
         (rsc[r].id # "" /\ rsc[r].path_prefix # "") =>
             /\ EndsInSeqSuffix(rsc[r].id) =>
                  rsc[r].id = rsc[r].path_prefix \o LastTen(rsc[r].id)
             /\ rsc[r].id \in DerivedIds \cup ForeignImportIds
    /\ \A i \in 1..Len(derived) :
         /\ EndsInSeqSuffix(derived[i].id)
         /\ derived[i].paths = <<derived[i].id>>
         /\ derived[i].id = derived[i].prefix \o LastTen(derived[i].id)

\* a created resource and its identity
C4_Witness ==
    /\ CreateReturned
    /\ rsc[last.slot].id = "/a/b10000000007"
    /\ rsc[last.slot].path_prefix = "/a/b1"
    /\ rsc[last.slot].id \in DerivedIds

\* C5: an import makes no call to the client and leaves ZooKeeper and the
\* id as they were; it writes path_prefix and nothing else; it returns an
\* error exactly when the write of path_prefix failed, whatever the id looks
\* like; it returns the one record on success and none on failure.
C5_ImportFrame ==
    [][ last'.op = "Import" =>
          /\ zkNodes' = zkNodes /\ zkSeq' = zkSeq
          /\ last'.calls = <<>>
          /\ ClientCalls(last'.trace) = {}
          /\ last'.out.id = last'.in.id
          /\ (last'.err # "") <=> (last'.failed # <<>>)
          /\ last'.err = "" =>
               /\ last'.nret = 1
               /\ \E v \in RemoveSequentialSuffix(last'.in.id) :
                    last'.out = [last'.in EXCEPT !.path_prefix = v]
          /\ last'.err # "" => (last'.nret = 0 /\ last'.out = last'.in)
      ]_vars

\* an identifier without the ten digits was imported without an error
C5_Witness ==
    /\ last.op = "Import"
    /\ ~EndsInSeqSuffix(last.in.id)
    /\ last.err = "" /\ last.nret = 1
    /\ rsc[last.slot].id = last.in.id

\* C6: while a resource keeps its id, its path_prefix does not change, and
\* an id is never exchanged for another in one step; an Update is never
\* handed a path_prefix other than the state's, and leaves id and
\* path_prefix alone; a configuration whose path_prefix differs from the
\* state's is served by a Delete of the old znode, and the Create that
\* follows it, on the new prefix, yields another id.
C6_PathPrefixImmutable ==
    [][ /\ \A r \in Slots :
             rsc[r].id # "" =>
                 /\ rsc'[r].id \in {rsc[r].id, ""}
                 /\ rsc'[r].id = rsc[r].id => rsc'[r].path_prefix = rsc[r].path_prefix
        /\ last'.op = "Update" =>
             /\ last'.in.path_prefix = last'.prior.path_prefix
             /\ last'.out.path_prefix = last'.prior.path_prefix
             /\ last'.out.id = last'.prior.id
        /\ (last'.op = "Delete" /\ last'.plan = "replace" /\ ~HasError(last'.diags)) =>
             /\ last'.in.id \notin DOMAIN zkNodes'
             /\ rsc'[last'.slot] = EmptyData
             /\ pending'[last'.slot].replaces = last'.in.id
             /\ pending'[last'.slot].cfg.path_prefix # last'.in.path_prefix
        /\ (last'.op = "Create" /\ last'.plan = "replace") =>
             /\ last'.prior.id = pending[last'.slot].replaces
             /\ last'.in.path_prefix = pending[last'.slot].cfg.path_prefix
             /\ last'.prior.id \notin DOMAIN zkNodes
             /\ last'.out.id # "" =>
                  (last'.out.id # last'.prior.id /\ last'.out.id \in DOMAIN zkNodes')
      ]_vars

\* a replacement ran to its end: the old znode is gone, the new prefix has
\* a new id
C6_Witness ==
    /\ last.op = "Create" /\ last.plan = "replace"
    /\ last.prior.id = "/queue/item-0000000007"
    /\ last.prior.id \notin DOMAIN zkNodes
    /\ rsc[last.slot].path_prefix = "/a/b1"
    /\ rsc[last.slot].id = "/a/b10000000007"

\* C7 as stated: whenever Create returns an error diagnostic, the record
\* carries no id and is not marked new.
C7_NoIdOnAnyFailure ==
    (CreateReturned /\ HasError(last.diags)) =>
        /\ last.out.id = ""
        /\ ~last.out.isNew

\* C7, amended: when Create returns an error diagnostic and its call to
\* CreateSequential did not succeed (it failed, or content decoding failed
\* before it), the record is as it was handed in: no id, not marked new;
\* when the call succeeded, the error is one of the write-back, and the
\* record carries the returned path as its id and is marked new, and the
\* state keeps the resource.
C7_NoIdUnlessCreated ==
    (CreateReturned /\ HasError(last.diags)) =>
        IF CreateSequentialSucceeded
        THEN /\ last.failed # <<>>
             /\ last.out.id = last.calls[1].ret
             /\ last.out.isNew
             /\ rsc[last.slot].id = last.calls[1].ret
        ELSE /\ last.out = last.in
             /\ last.out.id = "" /\ ~last.out.isNew
             /\ rsc[last.slot] = EmptyData

\* the write-back failed after the znode was created
C7_Witness ==
    /\ CreateReturned /\ HasError(last.diags)
    /\ CreateSequentialSucceeded
    /\ last.failed = <<"path">>
    /\ last.out.id \in DOMAIN zkNodes
    /\ last.out.path = ""

ContentDecoded(d) == getDataBytesFromResourceData(d).err = ""

\* C8 as stated: every invocation of Create (package provider) makes
\* exactly one call to CreateSequential, and the ids of the successful
\* Creates differ.
C8_OneCallPerInvocation ==
    /\ (CreateReturned /\ last.pkg = "provider") =>
         /\ Len(last.calls) = 1
         /\ Cardinality(Positions(last.trace, "CreateSequential")) = 1
    /\ \A i, j \in 1..Len(derived) : i # j => derived[i].id # derived[j].id

\* C8, amended: an invocation of Create whose content decodes makes exactly
\* one call to CreateSequential, and an invocation whose content does not
\* decode makes none; a successful Create's id is the path ZooKeeper
\* materialized on that one call; and the ids of the successful Creates
\* differ.
C8_OneCallPerDecodedInvocation ==
    /\ CreateReturned =>
         /\ Len(last.calls) = (IF ContentDecoded(last.in) THEN 1 ELSE 0)
         /\ Cardinality(Positions(last.trace, "CreateSequential")) = Len(last.calls)
         /\ ClientCalls(last.trace) = Positions(last.trace, "CreateSequential")
         /\ \A i \in 1..Len(last.calls) :
              /\ last.calls[i].op = "CreateSequential"
              /\ last.calls[i].path = last.in.path_prefix
         /\ last.out.id # "" => derived[Len(derived)].id = last.out.id
    /\ \A i \in 1..Len(derived) : derived[i].paths = <<derived[i].id>>
    /\ \A i, j \in 1..Len(derived) : i # j => derived[i].id # derived[j].id

\* two Creates with the same prefix
C8_Witness ==
    /\ CreateReturned
    /\ Len(derived) = 2
    /\ derived[1].prefix = "/queue/item-" /\ derived[2].prefix = "/queue/item-"
    /\ derived[1].id = "/queue/item-0000000007"
    /\ derived[2].id = "/queue/item-0000000008"

\* C9: a read of the data source makes one call to the client, a Read of
\* the requested path, and no other; when the Read fails it returns exactly
\* one error diagnostic naming the path and leaves the record as handed in
\* (no id, no attribute); when the Read succeeds the id is the returned
\* znode's path, set before any attribute is written, so it stands even if
\* the write-back fails.
C9_DataSourceRead ==
    [][ last'.op = "DataSourceRead" =>
          /\ Len(last'.calls) = 1
          /\ last'.calls[1].op = "Read" /\ last'.calls[1].path = last'.in.path
          /\ ClientCalls(last'.trace) = Positions(last'.trace, "Read")
          /\ zkNodes' = zkNodes /\ zkSeq' = zkSeq
          /\ last'.calls[1].err # "" =>
               /\ last'.diags =
                    <<ErrorDiag(ReadFailedSummary(last'.in.path, last'.calls[1].err))>>
               /\ last'.out = last'.in
               /\ last'.out.id = "" /\ last'.out.data = "" /\ last'.out.stat = {}
               /\ Positions(last'.trace, "SetId") = {}
               /\ Writes(last'.trace) = {}
          /\ last'.calls[1].err = "" =>
               /\ last'.out.id = last'.calls[1].ret
               /\ last'.out.id = last'.in.path
               /\ \E k \in Positions(last'.trace, "SetId") :
                    \A w \in Writes(last'.trace) : k < w
      ]_vars

\* the Read succeeded and the write-back failed: the id stands
C9_Witness ==
    /\ last.op = "DataSourceRead"
    /\ last.calls[1].err = ""
    /\ last.failed = <<"path">>
    /\ last.out.id = "/cfg" /\ last.out.data = "" /\ last.out.stat = {}

\* C10: when the content does not decode, Create (package provider) returns
\* an error without a call to CreateSequential, ZooKeeper is left as it was
\* and no id is assigned; and when a Create adds a znode, its content
\* decoded, and was decoded before the call.
C10_DecodeBeforeCreate ==
    [][ (last'.op = "Create" /\ last'.pkg = "provider") =>
          /\ ~ContentDecoded(last'.in) =>
               /\ last'.calls = <<>>
               /\ Positions(last'.trace, "CreateSequential") = {}
               /\ last'.diags = <<ErrorDiag(getDataBytesFromResourceData(last'.in).err)>>
               /\ last'.out.id = "" /\ rsc'[last'.slot].id = ""
               /\ zkNodes' = zkNodes /\ zkSeq' = zkSeq
          /\ DOMAIN zkNodes' # DOMAIN zkNodes =>
               /\ ContentDecoded(last'.in)
               /\ \E k \in Positions(last'.trace, "getDataBytesFromResourceData") :
                    \A c \in Positions(last'.trace, "CreateSequential") : k < c
      ]_vars

\* a Create of undecodable data_base64
C10_Witness ==
    /\ CreateReturned /\ last.pkg = "provider"
    /\ last.in.data_base64 = "%%"
    /\ HasError(last.diags)
    /\ last.calls = <<>>

====
